---- MODULE Spec2Model ----
(***************************************************************************)
(* Model of slasher/db/attester_slashings.go: the attester slashing store  *)
(* kept in one bolt bucket (slashingBucket).  Keys are                     *)
(*   [status byte][slashing type byte][32 byte hash tree root]             *)
(* and values are the protobuf encoding of the slashing.                   *)
(*                                                                         *)
(* Several callers (Procs) use the store concurrently.  A read-only        *)
(* transaction (db.view) reads the committed bucket as of its start; a     *)
(* read-write transaction (db.update) works on a private copy, holds the   *)
(* single writer lock and publishes the copy when its closure returns nil. *)
(***************************************************************************)
EXTENDS Integers, Sequences, FiniteSets, TLC

\* ---------------------------------------------------------------- bounds
NumProcs == 2
MaxStatus == 1
NumEvidence == 2

\* ------------------------------------------------------------- constants
RootLen == 32
Attestation == 1
Proposal == 0
MarshalTag == 10

Procs == 1..NumProcs
SlashingStatus == 0..MaxStatus
\* evidence object 0 is the nil slashing, which cannot be hashed
Evidence == 0..NumEvidence
GoodEvidence == 1..NumEvidence

NoErr == "nil"
NoProc == 0
Faults == {"none", "view", "delete", "iter", "marshal", "put"}

VARIABLES
    bucket,        \* committed content of slashingBucket: key -> value
    writer,        \* process holding the read-write transaction, or NoProc
    txBucket,      \* private copy of the open read-write transaction
    pc,            \* per process: "idle", "update" (Has done), "put" (keys deleted in tx)
    argS,          \* per process: status argument of the running Save
    argE,          \* per process: slashing argument of the running Save
    keysToDelete,  \* per process: keys collected by updateAttesterSlashingStatus
    ret            \* the most recently completed call: its arguments and what it returned

vars == <<bucket, writer, txBucket, pc, argS, argE, keysToDelete, ret>>

\* ------------------------------------------------------------ byte strings
HasSuffix(k, suffix) ==
    /\ Len(k) >= Len(suffix)
    /\ SubSeq(k, Len(k) - Len(suffix) + 1, Len(k)) = suffix

HasPrefix(k, prefix) ==
    /\ Len(k) >= Len(prefix)
    /\ SubSeq(k, 1, Len(prefix)) = prefix

\* bytes.Compare(a, b) < 0
KeyLess(a, b) ==
    \/ \E i \in 1..Len(a) :
          /\ i <= Len(b)
          /\ a[i] < b[i]
          /\ \A j \in 1..(i - 1) : a[j] = b[j]
    \/ /\ Len(a) < Len(b)
       /\ \A j \in 1..Len(a) : a[j] = b[j]

\* ------------------------------------------------------------- collaborators
\* ssz.HashTreeRoot: a 32 byte digest, or an error for the nil slashing
HashTreeRoot(e) ==
    IF e = 0
    THEN [err |-> TRUE, root |-> <<>>]
    ELSE [err |-> FALSE,
          root |-> [i \in 1..RootLen |-> IF i = RootLen THEN e % 256 ELSE (e * 200 + i) % 256]]

\* the checks "if err != nil" after ssz.HashTreeRoot (lines 82, 101, 122, 144)
HashFailedIgnored(h) == FALSE

HashFailed(h) == h.err

\* proto.Marshal of a slashing
Marshal(e) == <<MarshalTag, e>>

Garbage == <<255>>

\* createAttesterSlashing: proto.Unmarshal of a stored value
createAttesterSlashing(enc) ==
    IF Len(enc) = 2 /\ enc[1] = MarshalTag /\ enc[2] \in GoodEvidence
    THEN [err |-> NoErr, val |-> enc[2]]
    ELSE [err |-> "failed to unmarshal encoding", val |-> 0]

encodeStatusType(status, type) == <<status, type>>

encodeStatusTypeRoot(status, type, root) == <<status, type>> \o root

\* ------------------------------------------------------------------ bucket
EmptyBucket == [k \in {} |-> <<>>]

Put(b, k, v) == [x \in (DOMAIN b) \cup {k} |-> IF x = k THEN v ELSE b[x]]

Delete(b, k) == [x \in (DOMAIN b) \ {k} |-> b[x]]

RECURSIVE DeleteKeys(_, _)
DeleteKeys(b, ks) ==
    IF ks = <<>> THEN b ELSE DeleteKeys(Delete(b, Head(ks)), Tail(ks))

\* the keys of a bucket in cursor order (c.First, c.Next, ...)
RECURSIVE SortKeys(_)
SortKeys(S) ==
    IF S = {} THEN <<>>
    ELSE LET m == CHOOSE k \in S : \A o \in S \ {k} : KeyLess(k, o)
         IN  <<m>> \o SortKeys(S \ {m})

Cursor(b) == SortKeys(DOMAIN b)

\* c.Seek(prefix) and c.Next() while bytes.HasPrefix(k, prefix)
RECURSIVE TakePrefix(_, _)
TakePrefix(ks, prefix) ==
    IF ks = <<>> \/ ~HasPrefix(Head(ks), prefix) THEN <<>>
    ELSE <<Head(ks)>> \o TakePrefix(Tail(ks), prefix)

RECURSIVE Seek(_, _)
Seek(ks, prefix) ==
    IF ks = <<>> THEN <<>>
    ELSE IF KeyLess(Head(ks), prefix) THEN Seek(Tail(ks), prefix)
    ELSE ks

PrefixScanStatusOnly(b, prefix) ==
    TakePrefix(Seek(Cursor(b), <<prefix[1]>>), <<prefix[1]>>)

PrefixScan(b, prefix) == TakePrefix(Seek(Cursor(b), prefix), prefix)

\* ------------------------------------------------------------ scans
FirstMatchLast(ks, root) ==
    LET m == SelectSeq(ks, LAMBDA k : HasSuffix(k, root))
    IN  IF m = <<>> THEN [found |-> FALSE, status |-> 0]
        ELSE [found |-> TRUE, status |-> m[Len(m)][1]]

\* the cursor loop of HasAttesterSlashing (lines 128-134)
RECURSIVE FirstMatch(_, _)
FirstMatch(ks, root) ==
    IF ks = <<>> THEN [found |-> FALSE, status |-> 0]
    ELSE IF HasSuffix(Head(ks), root) THEN [found |-> TRUE, status |-> Head(ks)[1]]
    ELSE FirstMatch(Tail(ks), root)

HasScan(b, root) == FirstMatch(Cursor(b), root)

\* the collecting loop of updateAttesterSlashingStatus (lines 149-155)
KeysToDeleteNone(b, root) == <<>>

KeysToDeletePrefix(b, root) == SelectSeq(Cursor(b), LAMBDA k : HasPrefix(k, root))

KeysToDeleteLast(b, root) ==
    LET m == SelectSeq(Cursor(b), LAMBDA k : HasSuffix(k, root))
    IN  IF m = <<>> THEN <<>> ELSE <<m[Len(m)]>>

KeysToDeleteAll(b, root) == Cursor(b)

KeysToDelete(b, root) == SelectSeq(Cursor(b), LAMBDA k : HasSuffix(k, root))

\* the closure of DeleteAttesterSlashingWithStatus (lines 86-94)
DeleteWithStatusAnyStatus(b, status, root) ==
    DeleteKeys(b, SelectSeq(Cursor(b), LAMBDA k : HasSuffix(k, root)))

DeleteWithStatus(b, status, root) ==
    Delete(b, encodeStatusTypeRoot(status, Attestation, root))

\* the marshal and put of updateAttesterSlashingStatus (lines 163-167)
PutSlashingNoType(b, status, e, root) ==
    Put(b, <<status>> \o root, Marshal(e))

PutSlashing(b, status, e, root) ==
    Put(b, encodeStatusTypeRoot(status, Attestation, root), Marshal(e))

\* b.ForEach with b.Delete inside (lines 106-111).  bolt leaves a bucket
\* modified during ForEach undefined: after a delete the iteration either
\* goes on with the next key or steps over it (skip).  The result of
\* b.Delete is dropped, so a failing delete (delFails) changes nothing.
RECURSIVE ForEachDeleteFrom(_, _, _, _, _)
ForEachDeleteFrom(ks, b, root, delFails, skip) ==
    IF ks = <<>> THEN b
    ELSE IF HasSuffix(Head(ks), root)
         THEN IF delFails
              THEN ForEachDeleteFrom(Tail(ks), b, root, delFails, skip)
              ELSE ForEachDeleteFrom(IF skip /\ Tail(ks) # <<>> THEN Tail(Tail(ks)) ELSE Tail(ks),
                                     Delete(b, Head(ks)), root, delFails, skip)
         ELSE ForEachDeleteFrom(Tail(ks), b, root, delFails, skip)

ForEachDeleteFirstStatus(b, root, delFails, skip) ==
    Delete(b, encodeStatusTypeRoot(0, Attestation, root))

ForEachDeleteAny(b, root, delFails, skip) ==
    IF Cursor(b) = <<>> THEN b ELSE Delete(b, Head(Cursor(b)))

ForEachDelete(b, root, delFails, skip) ==
    ForEachDeleteFrom(Cursor(b), b, root, delFails, skip)

Values(b, ks) == [i \in 1..Len(ks) |-> b[ks[i]]]

\* AttesterSlashings (lines 37-45): decode after the transaction, nil on failure
RECURSIVE DecodeAll(_, _)
DecodeAll(encs, acc) ==
    IF encs = <<>> THEN [list |-> acc, err |-> NoErr]
    ELSE LET ps == createAttesterSlashing(Head(encs))
         IN  IF ps.err # NoErr THEN [list |-> <<>>, err |-> ps.err]
             ELSE DecodeAll(Tail(encs), Append(acc, ps.val))

\* AttestingSlashingsByStatus (lines 54-63): decode inside the cursor loop;
\* the closure returns the error and the slice built so far is returned with it
RECURSIVE DecodeInLoop(_, _)
DecodeInLoop(encs, acc) ==
    IF encs = <<>> THEN [list |-> acc, err |-> NoErr]
    ELSE LET ps == createAttesterSlashing(Head(encs))
         IN  IF ps.err # NoErr THEN [list |-> acc, err |-> ps.err]
             ELSE DecodeInLoop(Tail(encs), Append(acc, ps.val))

AttesterSlashingsScan(b, status) ==
    DecodeAll(Values(b, PrefixScan(b, encodeStatusType(status, Attestation))), <<>>)

AttestingSlashingsByStatusScan(b, status) ==
    DecodeInLoop(Values(b, PrefixScan(b, encodeStatusType(status, Attestation))), <<>>)

\* SaveAttesterSlashing line 72: the record is already stored with this status
AlreadySavedAnyStatus(r, status) == r.found

AlreadySavedNever(r, status) == FALSE

AlreadySaved(r, status) == r.found /\ r.status = status

\* what db.update has committed while the closure of
\* updateAttesterSlashingStatus is between its deletes and its put
\* (lines 147-169 are one closure: nothing)
CommittedAfterDeletesEarly(committed, working) == working

CommittedAfterDeletes(committed, working) == committed

\* ------------------------------------------------------------ bookkeeping
\* The record of a completed call.  op, s, e are the call and its arguments
\* (0 where it has none), err, found, st, list what it returned.  For a call
\* that writes, found and st tell what its transaction met: whether a copy
\* of e was stored, the status of the first one, and how many copies there
\* were.  raised tells that the engine returned an error to the store during
\* the call.
Result(op, s, e, err, found, st, list, raised) ==
    [op |-> op, s |-> s, e |-> e, err |-> err, found |-> found, st |-> st,
     list |-> list, raised |-> raised, copies |-> 0]

\* the record of a call that writes, whose transaction met bucket b
WriteResult(op, s, e, err, b, root, raised) ==
    [Result(op, s, e, err, HasScan(b, root).found, HasScan(b, root).status, <<>>, raised)
        EXCEPT !.copies = Cardinality({k \in DOMAIN b : HasSuffix(k, root)})]

InitWith(b) ==
    /\ bucket = b
    /\ writer = NoProc
    /\ txBucket = EmptyBucket
    /\ pc = [p \in Procs |-> "idle"]
    /\ argS = [p \in Procs |-> 0]
    /\ argE = [p \in Procs |-> 0]
    /\ keysToDelete = [p \in Procs |-> <<>>]
    /\ ret = Result("none", 0, 0, NoErr, FALSE, 0, <<>>, FALSE)

\* slashingBucket is created empty
Init == InitWith(EmptyBucket)

\* What a database file may hold when the store is opened on it: attester
\* records under any statuses, several statuses for one slashing included
\* (stale duplicates), and the proposer slashing records that share the
\* bucket, whose keys carry the other slashing type.
ProposalRoot == [i \in 1..RootLen |-> (i * 3) % 256]

ProposalValue == <<18, 1>>

AttesterKeys ==
    {encodeStatusTypeRoot(s, Attestation, HashTreeRoot(e).root) : s \in SlashingStatus, e \in GoodEvidence}

ProposalKeys == {encodeStatusTypeRoot(s, Proposal, ProposalRoot) : s \in SlashingStatus}

StoredValue(k) ==
    IF k[2] = Attestation
    THEN Marshal(CHOOSE e \in GoodEvidence : HasSuffix(k, HashTreeRoot(e).root))
    ELSE ProposalValue

StoredTables ==
    {[k \in ks |-> StoredValue(k)] : ks \in SUBSET (AttesterKeys \cup ProposalKeys)}

InitStored == \E b \in StoredTables : InitWith(b)

\* ------------------------------------------------------------ read calls
AttesterSlashings(p, status, f) ==
    /\ pc[p] = "idle"
    /\ f \in {"none", "view"}
    /\ LET r == AttesterSlashingsScan(bucket, status)
       IN  ret' = IF f = "view"
                  THEN Result("AttesterSlashings", status, 0, "view", FALSE, 0, <<>>, TRUE)
                  ELSE Result("AttesterSlashings", status, 0, r.err, FALSE, 0, r.list, FALSE)
    /\ UNCHANGED <<bucket, writer, txBucket, pc, argS, argE, keysToDelete>>

AttestingSlashingsByStatus(p, status, f) ==
    /\ pc[p] = "idle"
    /\ f \in {"none", "view"}
    /\ LET r == AttestingSlashingsByStatusScan(bucket, status)
       IN  ret' = IF f = "view"
                  THEN Result("AttestingSlashingsByStatus", status, 0, "view", FALSE, 0, <<>>, TRUE)
                  ELSE Result("AttestingSlashingsByStatus", status, 0, r.err, FALSE, 0, r.list, FALSE)
    /\ UNCHANGED <<bucket, writer, txBucket, pc, argS, argE, keysToDelete>>

HasAttesterSlashing(p, e, f) ==
    /\ pc[p] = "idle"
    /\ f \in {"none", "view"}
    /\ LET h == HashTreeRoot(e)
           r == HasScan(bucket, h.root)
       IN  ret' = IF HashFailed(h)
                  THEN Result("HasAttesterSlashing", 0, e, "failed to get hash root", FALSE, 0, <<>>, FALSE)
                  ELSE IF f = "view"
                  THEN Result("HasAttesterSlashing", 0, e, "view", FALSE, 0, <<>>, TRUE)
                  ELSE Result("HasAttesterSlashing", 0, e, NoErr, r.found, r.status, <<>>, FALSE)
    /\ UNCHANGED <<bucket, writer, txBucket, pc, argS, argE, keysToDelete>>

\* ------------------------------------------------------------ write calls
\* lines 67-77, up to the call of updateAttesterSlashingStatus
SaveAttesterSlashing(p, status, e, f) ==
    /\ pc[p] = "idle"
    /\ f \in {"none", "view"}
    /\ LET h == HashTreeRoot(e)
           r == HasScan(bucket, h.root)
       IN  IF HashFailed(h) \/ f = "view"
           THEN /\ ret' = Result("SaveAttesterSlashing", status, e,
                                 "failed to check if attester slashing is already in db",
                                 FALSE, 0, <<>>, ~HashFailed(h))
                /\ UNCHANGED <<pc, argS, argE>>
           ELSE IF AlreadySaved(r, status)
           THEN /\ ret' = WriteResult("SaveAttesterSlashing", status, e, NoErr, bucket, h.root, FALSE)
                /\ UNCHANGED <<pc, argS, argE>>
           ELSE /\ pc' = [pc EXCEPT ![p] = "update"]
                /\ argS' = [argS EXCEPT ![p] = status]
                /\ argE' = [argE EXCEPT ![p] = e]
                /\ UNCHANGED ret
    /\ UNCHANGED <<bucket, writer, txBucket, keysToDelete>>

\* p's call of updateAttesterSlashingStatus, and with it Save, returns err.
\* The committed bucket is still the one its transaction began with.
SaveReturns(p, err, raised) ==
    /\ pc' = [pc EXCEPT ![p] = "idle"]
    /\ ret' = WriteResult("SaveAttesterSlashing", argS[p], argE[p], err,
                          bucket, HashTreeRoot(argE[p]).root, raised)
    /\ argS' = [argS EXCEPT ![p] = 0]
    /\ argE' = [argE EXCEPT ![p] = 0]
    /\ keysToDelete' = [keysToDelete EXCEPT ![p] = <<>>]

\* updateAttesterSlashingStatus, lines 142-162: db.update begins, the cursor
\* loop collects the keys and they are deleted in the transaction
UpdateDeletes(p, f) ==
    /\ pc[p] = "update"
    /\ writer = NoProc
    /\ f \in {"none", "delete"}
    /\ LET root == HashTreeRoot(argE[p]).root
           keys == KeysToDelete(bucket, root)
           working == DeleteKeys(bucket, keys)
       IN  IF f = "delete"
           THEN /\ keys # <<>>
                /\ SaveReturns(p, "delete", TRUE)
                /\ UNCHANGED <<bucket, writer, txBucket>>
           ELSE /\ txBucket' = working
                /\ bucket' = CommittedAfterDeletes(bucket, working)
                /\ writer' = p
                /\ keysToDelete' = [keysToDelete EXCEPT ![p] = keys]
                /\ pc' = [pc EXCEPT ![p] = "put"]
                /\ UNCHANGED <<argS, argE, ret>>

\* updateAttesterSlashingStatus, lines 163-173: marshal, put, and db.update
\* commits (closure returned nil) or rolls back (closure returned an error)
UpdatePut(p, f) ==
    /\ pc[p] = "put"
    /\ writer = p
    /\ f \in {"none", "marshal", "put"}
    /\ LET root == HashTreeRoot(argE[p]).root
       IN  IF f = "none"
           THEN /\ bucket' = PutSlashing(txBucket, argS[p], argE[p], root)
                /\ SaveReturns(p, NoErr, FALSE)
           ELSE /\ UNCHANGED bucket
                /\ SaveReturns(p, IF f = "marshal" THEN "failed to marshal" ELSE "put", f = "put")
    /\ writer' = NoProc
    /\ txBucket' = EmptyBucket

\* lines 80-96
DeleteAttesterSlashingWithStatus(p, status, e, f) ==
    /\ pc[p] = "idle"
    /\ f \in {"none", "delete"}
    /\ LET h == HashTreeRoot(e)
           r == HasScan(bucket, h.root)
       IN  IF HashFailed(h)
           THEN /\ ret' = Result("DeleteAttesterSlashingWithStatus", status, e,
                                 "failed to get hash root", FALSE, 0, <<>>, FALSE)
                /\ UNCHANGED bucket
           ELSE /\ writer = NoProc
                /\ IF f = "delete"
                   THEN /\ ret' = WriteResult("DeleteAttesterSlashingWithStatus", status, e,
                                         "failed to delete the slashing proof from slashing bucket",
                                         bucket, h.root, TRUE)
                        /\ UNCHANGED bucket
                   ELSE /\ ret' = WriteResult("DeleteAttesterSlashingWithStatus", status, e, NoErr,
                                              bucket, h.root, FALSE)
                        /\ bucket' = DeleteWithStatus(bucket, status, h.root)
    /\ UNCHANGED <<writer, txBucket, pc, argS, argE, keysToDelete>>

\* lines 99-115
DeleteAttesterSlashing(p, e, f, skip) ==
    /\ pc[p] = "idle"
    /\ f \in {"none", "delete", "iter"}
    /\ LET h == HashTreeRoot(e)
           r == HasScan(bucket, h.root)
       IN  IF HashFailed(h)
           THEN /\ ret' = Result("DeleteAttesterSlashing", 0, e, "failed to get hash root",
                                 FALSE, 0, <<>>, FALSE)
                /\ UNCHANGED bucket
           ELSE /\ writer = NoProc
                /\ f = "delete" => r.found
                /\ bucket' = IF f = "iter" THEN bucket
                             ELSE ForEachDelete(bucket, h.root, f = "delete", skip)
                /\ ret' = WriteResult("DeleteAttesterSlashing", 0, e, NoErr, bucket, h.root, f # "none")
    /\ UNCHANGED <<writer, txBucket, pc, argS, argE, keysToDelete>>

\* a stored value that no longer decodes (written by something other than
\* this store, or damaged on disk)
Corrupt(k) ==
    /\ writer = NoProc
    /\ k \in DOMAIN bucket
    /\ bucket[k] # Garbage
    /\ bucket' = [bucket EXCEPT ![k] = Garbage]
    /\ ret' = Result("none", 0, 0, NoErr, FALSE, 0, <<>>, FALSE)
    /\ UNCHANGED <<writer, txBucket, pc, argS, argE, keysToDelete>>

\* ------------------------------------------------------------ specifications
Calls(P, F) ==
    \E p \in P, f \in F :
        \/ \E s \in SlashingStatus : AttesterSlashings(p, s, f)
        \/ \E s \in SlashingStatus : AttestingSlashingsByStatus(p, s, f)
        \/ \E e \in Evidence : HasAttesterSlashing(p, e, f)
        \/ \E s \in SlashingStatus, e \in Evidence : SaveAttesterSlashing(p, s, e, f)
        \/ UpdateDeletes(p, f)
        \/ UpdatePut(p, f)
        \/ \E s \in SlashingStatus, e \in Evidence : DeleteAttesterSlashingWithStatus(p, s, e, f)
        \/ \E e \in Evidence, skip \in BOOLEAN : DeleteAttesterSlashing(p, e, f, skip)

\* concurrent callers; the engine never fails and every stored value decodes
Next == Calls(Procs, {"none"})

Spec == Init /\ [][Next]_vars

\* one caller; the engine may fail and stored values may stop decoding
NextFault ==
    \/ Calls({1}, Faults)
    \/ \E k \in DOMAIN bucket : Corrupt(k)

SpecFault == Init /\ [][NextFault]_vars

\* one caller on any stored table; the engine never fails
NextStored == Calls({1}, {"none"})

SpecStored == InitStored /\ [][NextStored]_vars

\* ------------------------------------------------------------ properties
Root(e) == HashTreeRoot(e).root

Key(status, e) == encodeStatusTypeRoot(status, Attestation, Root(e))

\* the keys of b whose trailing 32 bytes are the digest of e
Copies(b, e) == {k \in DOMAIN b : HasSuffix(k, Root(e))}

Count(list, e) == Cardinality({i \in 1..Len(list) : list[i] = e})

Without(b, ks) == [k \in (DOMAIN b) \ ks |-> b[k]]

SaveDone == ret.op = "SaveAttesterSlashing" /\ ret.err = NoErr

\* C1: every committed table holds at most one key per digest.
C1_UniqueDigest ==
    \A e \in GoodEvidence : Cardinality(Copies(bucket, e)) <= 1

\* a Save has moved a record from another status and left one key
C1_Witness ==
    /\ SaveDone /\ ret.found /\ ret.st # ret.s
    /\ Copies(bucket, ret.e) = {Key(ret.s, ret.e)}

\* C2: once Save(s2, E) has returned for an E that Save(s1, E) had stored
\* under s1 # s2, listing s1 does not give E and listing s2 gives E once.
C2_StatusMove ==
    (SaveDone /\ ret.found /\ ret.st # ret.s) =>
        /\ Count(AttestingSlashingsByStatusScan(bucket, ret.st).list, ret.e) = 0
        /\ Count(AttesterSlashingsScan(bucket, ret.st).list, ret.e) = 0
        /\ Count(AttestingSlashingsByStatusScan(bucket, ret.s).list, ret.e) = 1
        /\ Count(AttesterSlashingsScan(bucket, ret.s).list, ret.e) = 1

\* the second Save has returned and both lists can be told apart
C2_Witness ==
    /\ SaveDone /\ ret.found /\ ret.st # ret.s
    /\ AttestingSlashingsByStatusScan(bucket, ret.s).list # <<>>
    /\ AttestingSlashingsByStatusScan(bucket, ret.st).list # <<>>

\* C3: after a successful Save(s, E), Has(E) gives (true, s).
C3_HasAfterSave ==
    SaveDone => HasScan(bucket, Root(ret.e)) = [found |-> TRUE, status |-> ret.s]

\* a Save has returned on a table that holds another record as well
C3_Witness ==
    /\ SaveDone
    /\ Cardinality(DOMAIN bucket) >= 2
    /\ HasScan(bucket, Root(ret.e)).found

\* C4: a Save(s, E) that directly follows a successful Save(s, E) returns at
\* its existence check: it changes no key and no value and opens no write
\* transaction.
C4_IdempotentSave ==
    [][\A p \in Procs, s \in SlashingStatus, e \in GoodEvidence :
          (SaveDone /\ ret.s = s /\ ret.e = e /\ SaveAttesterSlashing(p, s, e, "none")) =>
              /\ bucket' = bucket
              /\ pc'[p] = "idle"
              /\ writer' = writer
              /\ txBucket' = txBucket
              /\ ret'.err = NoErr]_vars

\* a Save has returned after finding the record stored with its status
C4_Witness ==
    SaveDone /\ ret.found /\ ret.st = ret.s /\ Key(ret.s, ret.e) \in DOMAIN bucket

DeleteAllDone == ret.op = "DeleteAttesterSlashing" /\ ret.err = NoErr

C6_DeleteAbsent ==
    [][\A p \in Procs, e \in GoodEvidence, skip \in BOOLEAN :
          (DeleteAttesterSlashing(p, e, "none", skip)
              /\ (Copies(bucket, e) = {} \/ (DeleteAllDone /\ ret.e = e))) =>
              /\ bucket' = bucket
              /\ ret'.err = NoErr]_vars

\* a DeleteAllCopies has returned that met no copy, on a table that is not empty
C6_Witness ==
    DeleteAllDone /\ ~ret.found /\ ret.e \in GoodEvidence /\ DOMAIN bucket # {}

DeleteExactDone == ret.op = "DeleteAttesterSlashingWithStatus" /\ ret.err = NoErr

\* C7: DeleteExact(s, E) removes the key (s, attestation, digest(E)) and
\* nothing else and returns no error; a record of E under another status
\* stays and Has(E) still gives it; when E was stored under s, Has(E) finds
\* nothing afterwards.
C7_DeleteExact ==
    /\ []((DeleteExactDone /\ ret.found /\ ret.st = ret.s) =>
            ~HasScan(bucket, Root(ret.e)).found)
    /\ [][\A p \in Procs, s \in SlashingStatus, e \in GoodEvidence :
            DeleteAttesterSlashingWithStatus(p, s, e, "none") =>
                /\ bucket' = Without(bucket, {Key(s, e)})
                /\ ret'.err = NoErr
                /\ (HasScan(bucket, Root(e)).found /\ HasScan(bucket, Root(e)).status # s) =>
                       HasScan(bucket', Root(e)) = HasScan(bucket, Root(e))]_vars

\* the record saved last under s has been deleted with status s
C7_Witness ==
    DeleteExactDone /\ ret.found /\ ret.st = ret.s /\ Copies(bucket, ret.e) = {}

\* p's transaction has deleted the record of its slashing and not yet put it back
Moving(p) == pc[p] = "put" /\ keysToDelete[p] # <<>>

OldStatus(p) == keysToDelete[p][1][1]

\* C8: while a status transition of E is between its delete and its put,
\* the committed table, which is what every read-only transaction reads,
\* holds E exactly once, under the old status; Has and the listings give that.
C8_NoIntermediateState ==
    /\ [](\A p \in Procs : Moving(p) =>
            /\ Cardinality(Copies(bucket, argE[p])) = 1
            /\ HasScan(bucket, Root(argE[p])) = [found |-> TRUE, status |-> OldStatus(p)])
    /\ [][\A p \in Procs, q \in Procs, s \in SlashingStatus :
            /\ (Moving(p) /\ HasAttesterSlashing(q, argE[p], "none")) =>
                   (ret'.found /\ ret'.st = OldStatus(p))
            /\ (Moving(p) /\ AttestingSlashingsByStatus(q, s, "none")) =>
                   Count(ret'.list, argE[p]) = (IF s = OldStatus(p) THEN 1 ELSE 0)
            /\ (Moving(p) /\ AttesterSlashings(q, s, "none")) =>
                   Count(ret'.list, argE[p]) = (IF s = OldStatus(p) THEN 1 ELSE 0)]_vars

\* a reader has looked E up while the transition of E to another status is open
C8_Witness ==
    \E p \in Procs :
        /\ Moving(p) /\ OldStatus(p) # argS[p]
        /\ Copies(txBucket, argE[p]) = {}
        /\ ret.op = "HasAttesterSlashing" /\ ret.e = argE[p] /\ ret.found

\* C9: a listing that returns an error returns no records.
C9_NoPartialResults ==
    (ret.op \in {"AttesterSlashings", "AttestingSlashingsByStatus"} /\ ret.err # NoErr) =>
        ret.list = <<>>

\* C10: a call during which the engine raised an error returns an error.
C10_ErrorsPropagate ==
    ret.raised => ret.err # NoErr

Unwritten == bucket' = bucket /\ writer' = writer /\ txBucket' = txBucket

\* the step is the return of the call op(s, e)
Returned(op, s, e) == ret'.op = op /\ ret'.s = s /\ ret'.e = e

\* the step may be the existence check of p's Save of e
SaveChecks(p, e) ==
    /\ pc[p] = "idle"
    /\ \/ pc'[p] = "update" /\ argE'[p] = e
       \/ pc'[p] = "idle" /\ ret'.op = "SaveAttesterSlashing" /\ ret'.e = e

\* C11: a status transition that fails after its deletes returns an error
\* and commits nothing: the committed table stays what it was when the
\* transaction began, with the old record of E under its old status.
C11_FailedTransitionRollsBack ==
    [][\A p \in Procs :
          /\ UpdateDeletes(p, "none") => bucket' = bucket
          /\ \A f \in {"delete", "marshal", "put"} :
                (UpdateDeletes(p, f) \/ UpdatePut(p, f)) =>
                    /\ bucket' = bucket
                    /\ ret'.err # NoErr
                    /\ writer' = NoProc
          /\ \A f \in {"marshal", "put"} :
                UpdatePut(p, f) =>
                    \A i \in 1..Len(keysToDelete[p]) :
                        /\ keysToDelete[p][i] \in DOMAIN bucket'
                        /\ HasSuffix(keysToDelete[p][i], Root(argE[p]))]_vars

\* a Save to another status has failed at its put and the old record is there
C11_Witness ==
    /\ ret.op = "SaveAttesterSlashing" /\ ret.err \in {"put", "failed to marshal"}
    /\ ret.found /\ ret.st # ret.s
    /\ Key(ret.st, ret.e) \in DOMAIN bucket

ListDone == ret.op \in {"AttesterSlashings", "AttestingSlashingsByStatus"}

\* the keys of b that start with (status, attestation)
StatusKeys(b, status) ==
    {k \in DOMAIN b : Len(k) >= 2 /\ k[1] = status /\ k[2] = Attestation}

\* C12: a listing of status s returns no error and the slashings of exactly
\* the keys that start with (s, attestation), each once, in ascending key
\* order; nothing when there is no such key.
C12_ListByStatus ==
    ListDone =>
        /\ ret.err = NoErr
        /\ Len(ret.list) = Cardinality(StatusKeys(bucket, ret.s))
        /\ \A i \in 1..Len(ret.list) : Key(ret.s, ret.list[i]) \in StatusKeys(bucket, ret.s)
        /\ \A i, j \in 1..Len(ret.list) :
              i < j => KeyLess(Key(ret.s, ret.list[i]), Key(ret.s, ret.list[j]))

\* a listing has returned two slashings from a table that also holds a
\* proposer record of the same status and an attester record of another one
C12_Witness ==
    /\ ListDone /\ Len(ret.list) >= 2
    /\ encodeStatusTypeRoot(ret.s, Proposal, ProposalRoot) \in DOMAIN bucket
    /\ \E s \in SlashingStatus \ {ret.s} : StatusKeys(bucket, s) # {}

\* C13: with a slashing whose digest cannot be computed, Save, Has, both
\* deletes return an error, change nothing and open no write transaction;
\* Has reports found = false.
C13_DigestFailure ==
    [][\A p \in Procs, s \in SlashingStatus, skip \in BOOLEAN :
          /\ SaveAttesterSlashing(p, s, 0, "none") =>
                (Unwritten /\ pc'[p] = "idle" /\ ret'.err # NoErr)
          /\ HasAttesterSlashing(p, 0, "none") =>
                (Unwritten /\ ret'.err # NoErr /\ ~ret'.found)
          /\ DeleteAttesterSlashingWithStatus(p, s, 0, "none") =>
                (Unwritten /\ ret'.err # NoErr)
          /\ DeleteAttesterSlashing(p, 0, "none", skip) =>
                (Unwritten /\ ret'.err # NoErr)]_vars

\* a Save of the nil slashing has returned an error on a table that is not empty
C13_Witness ==
    /\ ret.op = "SaveAttesterSlashing" /\ ret.e = 0 /\ ret.err # NoErr
    /\ DOMAIN bucket # {}

HasDone == ret.op = "HasAttesterSlashing" /\ ret.e \in GoodEvidence

\* C14: Has(E) returns no error, found = true exactly when some key ends
\* with the digest of E, and then the first byte of the smallest such key.
C14_HasFirstMatch ==
    HasDone =>
        /\ ret.err = NoErr
        /\ ret.found <=> Copies(bucket, ret.e) # {}
        /\ ret.found =>
              \E k \in Copies(bucket, ret.e) :
                  /\ k[1] = ret.st
                  /\ \A o \in Copies(bucket, ret.e) \ {k} : KeyLess(k, o)

\* Has has found a slashing that is stored under several statuses
C14_Witness ==
    HasDone /\ ret.found /\ Cardinality(Copies(bucket, ret.e)) >= 2

\* C15: a successful status transition of E to s, from any table, leaves
\* one key with the digest of E, (s, attestation, digest), with the
\* serialized E as value, and every key with another digest as it was.
C15_TransitionStatus ==
    [][\A p \in Procs :
          UpdatePut(p, "none") =>
              /\ Copies(bucket', argE[p]) = {Key(argS[p], argE[p])}
              /\ bucket'[Key(argS[p], argE[p])] = Marshal(argE[p])
              /\ DOMAIN bucket' \subseteq (DOMAIN bucket) \cup {Key(argS[p], argE[p])}
              /\ \A k \in (DOMAIN bucket) \ Copies(bucket, argE[p]) :
                    k \in DOMAIN bucket' /\ bucket'[k] = bucket[k]]_vars

\* a transition has replaced several stale copies next to a proposer record
C15_Witness ==
    /\ SaveDone /\ ret.copies >= 2
    /\ Copies(bucket, ret.e) = {Key(ret.s, ret.e)}
    /\ ProposalKeys \cap DOMAIN bucket # {}

\* C16: the listings and Has leave the table and the write transaction
\* alone, whether they succeed or fail, and so does a Save that finds the
\* record stored with the requested status.
C16_ReadsDoNotWrite ==
    [][\A p \in Procs, f \in {"none", "view"} :
          /\ \A s \in SlashingStatus :
                /\ (Returned("AttesterSlashings", s, 0) /\ AttesterSlashings(p, s, f)) =>
                       (Unwritten /\ pc' = pc)
                /\ (Returned("AttestingSlashingsByStatus", s, 0)
                        /\ AttestingSlashingsByStatus(p, s, f)) =>
                       (Unwritten /\ pc' = pc)
          /\ \A e \in Evidence :
                (Returned("HasAttesterSlashing", 0, e) /\ HasAttesterSlashing(p, e, f)) =>
                    (Unwritten /\ pc' = pc)
          /\ \A e \in GoodEvidence :
                LET h == HasScan(bucket, Root(e))
                IN  (/\ SaveChecks(p, e) /\ f = "none"
                     /\ h.found
                     /\ SaveAttesterSlashing(p, h.status, e, "none")) => (Unwritten /\ pc' = pc)]_vars

\* a listing has failed on a table that holds records
C16_Witness ==
    /\ ret.op = "AttestingSlashingsByStatus" /\ ret.err # NoErr
    /\ DOMAIN bucket # {}

\* C17: a Save stores its own record and neither its transaction nor its
\* commit touches a record with another digest, whatever other Save is
\* between its scan and its write.
C17_DisjointSaves ==
    /\ [](\A q \in Procs : pc[q] = "put" =>
            \A e \in GoodEvidence \ {argE[q]} : \A k \in Copies(bucket, e) :
                k \in DOMAIN txBucket /\ txBucket[k] = bucket[k])
    /\ [][\A p \in Procs :
            UpdatePut(p, "none") =>
                /\ Key(argS[p], argE[p]) \in DOMAIN bucket'
                /\ \A e \in GoodEvidence \ {argE[p]} :
                      /\ Copies(bucket', e) = Copies(bucket, e)
                      /\ \A k \in Copies(bucket, e) : bucket'[k] = bucket[k]]_vars

\* the record another Save has just committed is in the committed table and
\* in the working copy of a Save of a different slashing
C17_Witness ==
    \E q \in Procs :
        /\ pc[q] = "put" /\ SaveDone /\ ret.e # argE[q]
        /\ Key(ret.s, ret.e) \in DOMAIN bucket
        /\ Key(ret.s, ret.e) \in DOMAIN txBucket

\* what a call does to the table when it runs alone
SeqSave(b, s, e) ==
    IF \E k \in Copies(b, e) : k[1] = s
    THEN b
    ELSE [k \in ((DOMAIN b) \ Copies(b, e)) \cup {Key(s, e)} |->
             IF k = Key(s, e) THEN Marshal(e) ELSE b[k]]

SeqDeleteExact(b, s, e) == Without(b, {Key(s, e)})

SeqDeleteAll(b, e) == Without(b, Copies(b, e))

\* C18: every mutating call takes effect in one step between its start and
\* its return, and in that step the committed table changes as if the call
\* ran alone on it; the other steps of a Save change nothing.  A committed
\* Save leaves one record of E, under its status.
C18_Linearizable ==
    [][\A p \in Procs :
          /\ UpdateDeletes(p, "none") => bucket' = bucket
          /\ UpdatePut(p, "none") =>
                /\ bucket' = SeqSave(bucket, argS[p], argE[p])
                /\ Copies(bucket', argE[p]) = {Key(argS[p], argE[p])}
                /\ ret'.err = NoErr
          /\ \A s \in SlashingStatus, e \in GoodEvidence :
                /\ (/\ Returned("SaveAttesterSlashing", s, e)
                    /\ SaveAttesterSlashing(p, s, e, "none") /\ pc'[p] = "idle") =>
                       (bucket' = SeqSave(bucket, s, e) /\ ret'.err = NoErr)
                /\ (/\ pc'[p] = "update" /\ argS'[p] = s /\ argE'[p] = e
                    /\ SaveAttesterSlashing(p, s, e, "none")) =>
                       bucket' = bucket
                /\ (/\ Returned("DeleteAttesterSlashingWithStatus", s, e)
                    /\ DeleteAttesterSlashingWithStatus(p, s, e, "none")) =>
                       (bucket' = SeqDeleteExact(bucket, s, e) /\ ret'.err = NoErr)
          /\ \A e \in GoodEvidence, skip \in BOOLEAN :
                (Returned("DeleteAttesterSlashing", 0, e)
                    /\ DeleteAttesterSlashing(p, e, "none", skip)) =>
                       (bucket' = SeqDeleteAll(bucket, e) /\ ret'.err = NoErr)]_vars

\* a Save of E has committed while a Save of E to another status is
\* between its scan and its write
C18_Witness ==
    \E q \in Procs :
        /\ pc[q] = "update" /\ SaveDone
        /\ ret.e = argE[q] /\ ret.s # argS[q]
        /\ Copies(bucket, ret.e) = {Key(ret.s, ret.e)}

\* C19 as claimed: after a successful Save(s, E), from any table, exactly
\* one record has the digest of E and it carries s.
C19_SaveRestoresUniqueness ==
    SaveDone => Copies(bucket, ret.e) = {Key(ret.s, ret.e)}

\* C19 as amended: after a successful Save(s, E), from any table, E is
\* stored under s; it is the only record of E unless the first copy the
\* existence check met already carried s, and then Save has written nothing.
C19_SaveUniqueWhenWritten ==
    /\ [](SaveDone =>
            /\ Key(ret.s, ret.e) \in DOMAIN bucket
            /\ ~(ret.found /\ ret.st = ret.s) => Copies(bucket, ret.e) = {Key(ret.s, ret.e)})
    /\ [][\A p \in Procs, e \in GoodEvidence :
            LET h == HasScan(bucket, Root(e))
            IN  (/\ SaveChecks(p, e)
                 /\ h.found
                 /\ SaveAttesterSlashing(p, h.status, e, "none")) => bucket' = bucket]_vars

\* a Save has met several copies, the first under another status, and left one
C19_Witness ==
    /\ SaveDone /\ ret.copies >= 2 /\ ret.st # ret.s
    /\ Cardinality(Copies(bucket, ret.e)) = 1

WellFormed(k, v) ==
    /\ Len(k) = RootLen + 2
    /\ k[1] \in SlashingStatus
    /\ k[2] = Attestation
    /\ createAttesterSlashing(v).err = NoErr
    /\ SubSeq(k, 3, Len(k)) = Root(createAttesterSlashing(v).val)

\* C20: every stored record has a key [status][attestation][32 byte digest]
\* whose digest is that of the slashing in its value, and the status byte of
\* a record is the status of the Save that wrote it.
C20_WellFormedRecords ==
    /\ [](\A k \in DOMAIN bucket : WellFormed(k, bucket[k]))
    /\ [][\A p \in Procs :
            UpdatePut(p, "none") =>
                \A k \in DOMAIN bucket' :
                    (k \notin DOMAIN bucket \/ HasSuffix(k, Root(argE[p]))) => k[1] = argS[p]]_vars

\* every slashing is stored and two statuses are in use
C20_Witness ==
    /\ \A e \in GoodEvidence : Copies(bucket, e) # {}
    /\ \E k, o \in DOMAIN bucket : k[1] # o[1]

====
